---- MODULE Spec2Model ----
(***************************************************************************)
(* Model of MA-Policy-Feed: the multi-source digest (src/main.py) and the  *)
(* RSS-only digest (src/src/main.py).                                      *)
(*                                                                         *)
(* Python values are modelled as follows.                                  *)
(*   datetime   record [year, month, day, hour, minute, second,            *)
(*              microsecond, tzinfo]; tzinfo is <<m>> for a fixed UTC      *)
(*              offset of m minutes, or NoTz for a naive value.            *)
(*   date       record [year, month, day].                                 *)
(*   str        a sequence of character codes (ASCII) where the program    *)
(*              compares, formats or parses it (timestamps); a sequence of *)
(*              one-character strings for titles; a TLA+ string for text   *)
(*              the program only copies (urls, labels, literals).          *)
(***************************************************************************)
EXTENDS Integers, Sequences, FiniteSets, TLC

NoTz == <<>>
Tz(m) == <<m>>
UTC == Tz(0)
UtcOffset(dt) == dt.tzinfo[1]

(***************************************************************************)
(* Calendar arithmetic of the datetime module (proleptic Gregorian).       *)
(***************************************************************************)
DaysFromCivil(y, m, d) ==
    LET yy  == IF m <= 2 THEN y - 1 ELSE y
        era == yy \div 400
        yoe == yy - era * 400
        mp  == IF m > 2 THEN m - 3 ELSE m + 9
        doy == (153 * mp + 2) \div 5 + d - 1
        doe == yoe * 365 + yoe \div 4 - yoe \div 100 + doy
    IN  era * 146097 + doe - 719468

CivilFromDays(z) ==
    LET zz  == z + 719468
        era == zz \div 146097
        doe == zz - era * 146097
        yoe == (doe - doe \div 1460 + doe \div 36524 - doe \div 146096) \div 365
        doy == doe - (365 * yoe + yoe \div 4 - yoe \div 100)
        mp  == (5 * doy + 2) \div 153
        d   == doy - (153 * mp + 2) \div 5 + 1
        m   == IF mp < 10 THEN mp + 3 ELSE mp - 9
        y   == yoe + era * 400
    IN  [year |-> IF m <= 2 THEN y + 1 ELSE y, month |-> m, day |-> d]

\* datetime(y, mo, d, h, mi, s, us, tzinfo=tz)
DateTime(y, mo, d, h, mi, s, us, tz) ==
    [year |-> y, month |-> mo, day |-> d, hour |-> h, minute |-> mi,
     second |-> s, microsecond |-> us, tzinfo |-> tz]

\* Seconds since 1970-01-01T00:00:00 of the wall-clock fields of dt.
WallSeconds(dt) ==
    DaysFromCivil(dt.year, dt.month, dt.day) * 86400
        + dt.hour * 3600 + dt.minute * 60 + dt.second

\* The datetime whose wall clock is `secs` seconds after 1970-01-01T00:00:00.
FromWallSeconds(secs, us, tz) ==
    LET days == secs \div 86400
        rem  == secs - days * 86400
        c    == CivilFromDays(days)
    IN  DateTime(c.year, c.month, c.day, rem \div 3600, (rem % 3600) \div 60,
                 (rem % 60), us, tz)

\* POSIX timestamp (whole seconds) of an aware datetime.
Epoch(dt) == WallSeconds(dt) - UtcOffset(dt) * 60

\* dt - timedelta(seconds=n)
MinusSeconds(dt, n) == FromWallSeconds(WallSeconds(dt) - n, dt.microsecond, dt.tzinfo)

\* aware >= aware: datetime.__ge__ compares the instants.
DtGe(a, b) ==
    \/ Epoch(a) > Epoch(b)
    \/ Epoch(a) = Epoch(b) /\ a.microsecond >= b.microsecond

DtLt(a, b) == ~DtGe(a, b)

SameInstant(a, b) == Epoch(a) = Epoch(b) /\ a.microsecond = b.microsecond

(***************************************************************************)
(* Strings of character codes: digits are 48..57, "+" 43, "-" 45, "." 46,  *)
(* ":" 58, "T" 84, " " 32, "U" 85, "C" 67.                                 *)
(***************************************************************************)
RECURSIVE Pad(_, _)
\* "%0<w>d" % n
Pad(n, w) == IF w = 0 THEN <<>> ELSE Append(Pad(n \div 10, w - 1), 48 + (n % 10))

RECURSIVE Num(_, _, _)
\* int(s[i..j]) for a run of digits
Num(s, i, j) == IF j < i THEN 0 ELSE Num(s, i, j - 1) * 10 + (s[j] - 48)

RECURSIVE StrLt(_, _)
\* str.__lt__: lexicographic order on code points
StrLt(a, b) ==
    IF b = <<>> THEN FALSE
    ELSE IF a = <<>> THEN TRUE
    ELSE IF Head(a) # Head(b) THEN Head(a) < Head(b)
    ELSE StrLt(Tail(a), Tail(b))

\* datetime.astimezone(timezone.utc).  A naive value is taken to be in the
\* system local time zone, whose UTC offset is `local` minutes.
AsTimezoneUtc(dt, local) ==
    LET off == IF dt.tzinfo = NoTz THEN local ELSE UtcOffset(dt)
    IN  FromWallSeconds(WallSeconds(dt) - off * 60, dt.microsecond, UTC)

\* datetime.replace(tzinfo=timezone.utc)
ReplaceTzUtc(dt) == [dt EXCEPT !.tzinfo = UTC]

\* datetime.isoformat()
IsoFormat(dt) ==
    LET base == Pad(dt.year, 4) \o <<45>> \o Pad(dt.month, 2) \o <<45>>
                  \o Pad(dt.day, 2) \o <<84>> \o Pad(dt.hour, 2) \o <<58>>
                  \o Pad(dt.minute, 2) \o <<58>> \o Pad(dt.second, 2)
        frac == IF dt.microsecond = 0 THEN <<>>
                ELSE <<46>> \o Pad(dt.microsecond, 6)
        off  == IF dt.tzinfo = NoTz THEN 0 ELSE UtcOffset(dt)
        mag  == IF off < 0 THEN 0 - off ELSE off
        zone == IF dt.tzinfo = NoTz THEN <<>>
                ELSE <<(IF off < 0 THEN 45 ELSE 43)>> \o Pad(mag \div 60, 2)
                       \o <<58>> \o Pad(mag % 60, 2)
    IN  base \o frac \o zone

\* datetime.fromisoformat(s), for the strings isoformat() produces
FromIsoFormat(s) ==
    LET hasFrac == Len(s) >= 20 /\ s[20] = 46
        us      == IF hasFrac THEN Num(s, 21, 26) ELSE 0
        p       == IF hasFrac THEN 27 ELSE 20
        tz      == IF p > Len(s) THEN NoTz
                   ELSE Tz((IF s[p] = 45 THEN -1 ELSE 1)
                          * (Num(s, p + 1, p + 2) * 60 + Num(s, p + 4, p + 5)))
    IN  DateTime(Num(s, 1, 4), Num(s, 6, 7), Num(s, 9, 10), Num(s, 12, 13),
                 Num(s, 15, 16), Num(s, 18, 19), us, tz)

\* dt.strftime("%Y-%m-%d %H:%M")
StrfMinute(dt) ==
    Pad(dt.year, 4) \o <<45>> \o Pad(dt.month, 2) \o <<45>> \o Pad(dt.day, 2)
        \o <<32>> \o Pad(dt.hour, 2) \o <<58>> \o Pad(dt.minute, 2)

(***************************************************************************)
(* America/New_York (US rules in force since 2007): daylight time from the *)
(* second Sunday of March, 02:00 EST, to the first Sunday of November,     *)
(* 02:00 EDT.                                                              *)
(***************************************************************************)
\* Day number of the n-th Sunday of month m of year y.
NthSunday(y, m, n) ==
    LET first == DaysFromCivil(y, m, 1)
        dow   == (first + 4) % 7          \* 0 = Sunday; 1970-01-01 was a Thursday
    IN  first + ((7 - dow) % 7) + (7 * (n - 1))

\* ZoneInfo("America/New_York").utcoffset at the instant `epoch`, in minutes.
NyOffset(epoch) ==
    LET y     == CivilFromDays(epoch \div 86400).year
        start == NthSunday(y, 3, 2) * 86400 + 7 * 3600
        end   == NthSunday(y, 11, 1) * 86400 + 6 * 3600
    IN  IF start <= epoch /\ epoch < end THEN -240 ELSE -300

\* dt.astimezone(tz) for an aware dt and a zone with the given offset now.
AsOffset(dt, off) ==
    FromWallSeconds(Epoch(dt) + off * 60, dt.microsecond, Tz(off))

\* iso_ny(dt).  tzdb says whether the zone database can be loaded.
iso_ny(dt, tzdb) ==
    IF tzdb THEN StrfMinute(AsOffset(dt, NyOffset(Epoch(dt))))
    ELSE StrfMinute(AsOffset(dt, 0)) \o <<32, 85, 84, 67>>

\* iso_boston(dt_utc).  dateutil's gettz returns None when the zone cannot
\* be loaded, and astimezone(None) converts to the system local zone.
iso_boston(dt_utc, tzdb, local) ==
    IF tzdb THEN StrfMinute(AsOffset(dt_utc, NyOffset(Epoch(dt_utc))))
    ELSE StrfMinute(AsOffset(dt_utc, local))

\* A window that leaves its boundary out: dt_obj > since_dt.
within_window_exclusive(dt_obj, since_dt) == DtGe(dt_obj, since_dt) /\ ~SameInstant(dt_obj, since_dt)

\* within_window(dt_obj, since_dt)
within_window(dt_obj, since_dt) == DtGe(dt_obj, since_dt)

(***************************************************************************)
(* Text the program edits (titles, links, labels, urls) is a sequence of   *)
(* tokens; each whitespace character is a token of its own.  An optional   *)
(* value (a dict key that may be missing) is <<>> or <<value>>.            *)
(***************************************************************************)
Whitespace == {" ", "\n", "\t"}

RECURSIVE LStrip(_)
LStrip(t) == IF t # <<>> /\ Head(t) \in Whitespace THEN LStrip(Tail(t)) ELSE t

RECURSIVE RStrip(_)
RStrip(t) ==
    IF t # <<>> /\ t[Len(t)] \in Whitespace THEN RStrip(SubSeq(t, 1, Len(t) - 1))
    ELSE t

\* str.strip()
Strip(t) == RStrip(LStrip(t))

\* str.replace("\n", " ")
ReplaceNewline(t) == [k \in 1..Len(t) |-> IF t[k] = "\n" THEN " " ELSE t[k]]

\* dict.get(key, default)
Get(opt, default) == IF opt = <<>> THEN default ELSE opt[1]

\* a or b, on strings
OrElse(a, b) == IF a # <<>> THEN a ELSE b

(***************************************************************************)
(* Timestamp resolution.  A free-text date field is <<>> (key missing) or  *)
(* <<[fmt, val]>>: fmt is "iso" (ISO 8601), "rfc822" or "junk", and val is *)
(* the datetime the text denotes.  A *_parsed field is <<>> (key missing), *)
(* <<<<>>>> (None) or <<tuple>> with tuple = <<y, mo, d, h, mi, s>>.       *)
(***************************************************************************)
TextKeys == <<"published", "updated", "created">>

\* The formats on which to_dt, i.e. dtparse.parse(str(obj)), returns
\* (on the others it raises): dateutil reads both RFC 822 and ISO 8601.
to_dt_formats == {"iso", "rfc822"}

\* The formats on which datetime.fromisoformat(str(obj)) returns.
fromisoformat_formats == {"iso"}

RECURSIVE FirstParsed(_, _, _)
\* The for/try loop over the text keys, from key number k on, with a
\* parser that accepts the formats fmts: <<>> when no key is present and
\* parses.
FirstParsed(e, k, fmts) ==
    IF k > Len(TextKeys) THEN <<>>
    ELSE LET f == e[TextKeys[k]]
         IN  IF f # <<>> /\ f[1].fmt \in fmts THEN <<f[1].val>>
             ELSE FirstParsed(e, k + 1, fmts)

\* datetime(*t[:6], tzinfo=timezone.utc)
FromStruct(t) == DateTime(t[1], t[2], t[3], t[4], t[5], t[6], 0, UTC)

\* "x_parsed" in e and e.x_parsed / getattr(entry, "x_parsed", None)
HasStruct(f) == f # <<>> /\ f[1] # <<>>

\* A resolver that gives up on the first text field that fails to parse.
dt_candidate_first_present(e) ==
    LET present == SelectSeq(TextKeys, LAMBDA key : e[key] # <<>>)
    IN  IF present # <<>> /\ e[present[1]][1].fmt \in to_dt_formats
        THEN <<e[present[1]][1].val>>
        ELSE IF present = <<>> /\ HasStruct(e.published_parsed)
        THEN <<FromStruct(e.published_parsed[1])>>
        ELSE <<>>

\* fetch_rss, lines 37-46: dt_candidate, <<>> for None
dt_candidate(e) ==
    LET c == FirstParsed(e, 1, to_dt_formats)
    IN  IF c # <<>> THEN c
        ELSE IF HasStruct(e.published_parsed) THEN <<FromStruct(e.published_parsed[1])>>
        ELSE <<>>

\* parse_dt(entry) of the RSS-only program, <<>> for None
parse_dt(e) ==
    LET c == FirstParsed(e, 1, fromisoformat_formats)
    IN  IF c # <<>> THEN c
        ELSE IF HasStruct(e.published_parsed) THEN <<FromStruct(e.published_parsed[1])>>
        ELSE IF HasStruct(e.updated_parsed) THEN <<FromStruct(e.updated_parsed[1])>>
        ELSE <<>>

(***************************************************************************)
(* Source adapters of src/main.py.  A response is [status, title, body]:   *)
(* status "ok", "raise" (the fetch or the parse raises) or "bozo"          *)
(* (feedparser reports the failure in the result and returns no entries).  *)
(***************************************************************************)
\* fetch_rss, lines 47-59, for one entry: the items it appends (none or one)
RssItem(e, feed_title, url, local) ==
    LET c == dt_candidate(e)
    IN  IF c = <<>> THEN <<>>
        ELSE <<[type   |-> "rss",
                source |-> Strip(OrElse(Get(feed_title, <<>>), url)),
                title  |-> OrElse(Strip(Get(e.title, <<>>)), <<"(untitled)">>),
                link   |-> OrElse(Strip(Get(e.link, <<>>)), <<>>),
                dt     |-> IsoFormat(AsTimezoneUtc(c[1], local))]>>

RECURSIVE RssItems(_, _, _, _)
RssItems(entries, feed_title, url, local) ==
    IF entries = <<>> THEN <<>>
    ELSE RssItem(Head(entries), feed_title, url, local)
           \o RssItems(Tail(entries), feed_title, url, local)

\* fetch_rss(url), given what feedparser.parse(url) returns
fetch_rss(url, resp, local) ==
    RssItems(IF resp.status = "ok" THEN resp.body ELSE <<>>, resp.title, url, local)

IsDateTime(v) == "hour" \in DOMAIN v

\* An adapter that puts a date-only DTSTART at midnight UTC.
IcsItemAtMidnight(comp, url) ==
    IF comp.name # "VEVENT" \/ comp.dtstart = <<>> THEN <<>>
    ELSE LET dt     == comp.dtstart[1]
             dt_utc == IF IsDateTime(dt)
                       THEN AsTimezoneUtc(IF dt.tzinfo = NoTz THEN ReplaceTzUtc(dt)
                                          ELSE dt, 0)
                       ELSE DateTime(dt.year, dt.month, dt.day, 0, 0, 0, 0, UTC)
         IN  <<[type   |-> "ics",
                source |-> url,
                title  |-> Get(comp.summary, <<"(no title)">>),
                link   |-> Get(comp.url, <<>>),
                dt     |-> IsoFormat(dt_utc)]>>

\* fetch_ics, lines 68-93, for one component: the items it appends
IcsItem(comp, url) ==
    IF comp.name # "VEVENT" \/ comp.dtstart = <<>> THEN <<>>
    ELSE LET dt     == comp.dtstart[1]
             dt_utc == IF IsDateTime(dt)
                       THEN AsTimezoneUtc(IF dt.tzinfo = NoTz THEN ReplaceTzUtc(dt)
                                          ELSE dt, 0)
                       ELSE DateTime(dt.year, dt.month, dt.day, 12, 0, 0, 0, UTC)
         IN  <<[type   |-> "ics",
                source |-> url,
                title  |-> Get(comp.summary, <<"(no title)">>),
                link   |-> Get(comp.url, <<>>),
                dt     |-> IsoFormat(dt_utc)]>>

RECURSIVE IcsItems(_, _)
IcsItems(comps, url) ==
    IF comps = <<>> THEN <<>> ELSE IcsItem(Head(comps), url) \o IcsItems(Tail(comps), url)

\* fetch_ics(url), when requests.get, raise_for_status and from_ical succeed
fetch_ics(url, resp) == IcsItems(resp.body, url)

RECURSIVE InWindow(_, _)
\* main, lines 157-160 and 166-169: the fetched items that are appended
InWindow(items, since_dt) ==
    IF items = <<>> THEN <<>>
    ELSE (IF within_window(FromIsoFormat(Head(items).dt), since_dt)
          THEN <<Head(items)>> ELSE <<>>) \o InWindow(Tail(items), since_dt)

(***************************************************************************)
(* Report renderer of src/main.py.  A line is a sequence of pieces: the    *)
(* literal text of the f-string and the values it interpolates (the em     *)
(* dash of the source is written "--").                                    *)
(***************************************************************************)
SelectType(items, t) == SelectSeq(items, LAMBDA it : it.type = t)

RECURSIVE InsertByDt(_, _)
\* Place `it` after every item whose key is not smaller (keys are the "dt"
\* strings, compared as strings).
InsertByDt(sorted, it) ==
    IF sorted = <<>> THEN <<it>>
    ELSE IF StrLt(Head(sorted).dt, it.dt) THEN <<it>> \o sorted
    ELSE <<Head(sorted)>> \o InsertByDt(Tail(sorted), it)

RECURSIVE SortedByDtAscending(_)
\* The sort without reverse=True.
SortedByDtAscending(items) ==
    IF items = <<>> THEN <<>>
    ELSE LET rest == SortedByDtAscending(Tail(items))
             lo   == SelectSeq(rest, LAMBDA x : StrLt(x.dt, Head(items).dt))
             hi   == SelectSeq(rest, LAMBDA x : ~StrLt(x.dt, Head(items).dt))
         IN  lo \o <<Head(items)>> \o hi

\* No sort at all: the items in arrival order.
Unsorted(items) == items

RECURSIVE SortedByDt(_)
\* sorted(items, key=lambda x: x["dt"], reverse=True): stable, descending
SortedByDt(items) ==
    IF items = <<>> THEN <<>>
    ELSE InsertByDt(SortedByDt(SubSeq(items, 1, Len(items) - 1)), items[Len(items)])

\* render_markdown, lines 111-115: the bullet of a press release
RssBullet(it, tzdb) ==
    <<"- **", iso_ny(FromIsoFormat(it.dt), tzdb), "** -- [",
      Strip(ReplaceNewline(it.title)), "](", it.link, ")  _", it.source, "_">>

\* render_markdown, lines 126-133: the bullet of an event
IcsBullet(it, tzdb) ==
    IF it.link # <<>>
    THEN <<"- **", iso_ny(FromIsoFormat(it.dt), tzdb), "** -- [",
           Strip(ReplaceNewline(it.title)), "](", it.link, ")  _", it.source, "_">>
    ELSE <<"- **", iso_ny(FromIsoFormat(it.dt), tzdb), "** -- ",
           Strip(ReplaceNewline(it.title)), "  _", it.source, "_">>

RssBullets(items, tzdb) ==
    LET srt == SortedByDt(items) IN [k \in 1..Len(srt) |-> RssBullet(srt[k], tzdb)]

IcsBullets(items, tzdb) ==
    LET srt == SortedByDt(items) IN [k \in 1..Len(srt) |-> IcsBullet(srt[k], tzdb)]

\* A renderer that leaves out the section of a category without items.
render_markdown_skipping_empty(items, report_date_str, tzdb) ==
    LET rss_items == SelectType(items, "rss")
        ics_items == SelectType(items, "ics")
    IN  <<<<"# Massachusetts Policy Feed -- ", report_date_str>>, <<"">>>>
        \o (IF rss_items # <<>>
            THEN <<<<"## Press Releases (last 24h)">>, <<"">>>>
                   \o RssBullets(rss_items, tzdb) \o <<<<"">>>>
            ELSE <<>>)
        \o (IF ics_items # <<>>
            THEN <<<<"## Hearings & Meetings (last 24h window start times)">>, <<"">>>>
                   \o IcsBullets(ics_items, tzdb) \o <<<<"">>>>
            ELSE <<>>)

\* render_markdown(items, report_date_str): the lines that are joined
render_markdown(items, report_date_str, tzdb) ==
    LET rss_items == SelectType(items, "rss")
        ics_items == SelectType(items, "ics")
    IN  <<<<"# Massachusetts Policy Feed -- ", report_date_str>>, <<"">>>>
        \o (IF rss_items # <<>>
            THEN <<<<"## Press Releases (last 24h)">>, <<"">>>>
                   \o RssBullets(rss_items, tzdb) \o <<<<"">>>>
            ELSE <<<<"## Press Releases">>,
                   <<"> No new items in the last 24 hours.">>, <<"">>>>)
        \o (IF ics_items # <<>>
            THEN <<<<"## Hearings & Meetings (last 24h window start times)">>, <<"">>>>
                   \o IcsBullets(ics_items, tzdb) \o <<<<"">>>>
            ELSE <<<<"## Hearings & Meetings">>,
                   <<"> No events starting in the last 24 hours.">>, <<"">>>>)

\* strftime("%Y-%m-%d")
StrfDate(dt) ==
    Pad(dt.year, 4) \o <<45>> \o Pad(dt.month, 2) \o <<45>> \o Pad(dt.day, 2)

(***************************************************************************)
(* The RSS-only program, src/src/main.py.                                  *)
(***************************************************************************)
\* main, line 44
RoSource(resp, url) ==
    IF resp.status = "bozo" THEN url ELSE Strip(OrElse(Get(resp.title, <<>>), url))

\* main, lines 46-70, for one entry: the items it appends (none or one)
RoItem(e, source, since_dt) ==
    LET p == parse_dt(e)
    IN  IF p = <<>> THEN <<>>
        ELSE LET dt     == IF p[1].tzinfo = NoTz THEN ReplaceTzUtc(p[1]) ELSE p[1]
                 dt_utc == AsTimezoneUtc(dt, 0)
             IN  IF DtLt(dt_utc, since_dt) THEN <<>>
                 ELSE <<[when   |-> dt_utc,
                         title  |-> OrElse(Strip(Get(e.title, <<>>)), <<"(no title)">>),
                         link   |-> Strip(Get(e.link, <<>>)),
                         source |-> source]>>

RECURSIVE RoItems(_, _, _)
RoItems(entries, source, since_dt) ==
    IF entries = <<>> THEN <<>>
    ELSE RoItem(Head(entries), source, since_dt) \o RoItems(Tail(entries), source, since_dt)

RECURSIVE InsertByWhen(_, _)
InsertByWhen(sorted, it) ==
    IF sorted = <<>> THEN <<it>>
    ELSE IF DtLt(Head(sorted).when, it.when) THEN <<it>> \o sorted
    ELSE <<Head(sorted)>> \o InsertByWhen(Tail(sorted), it)

RECURSIVE SortedByWhen(_)
\* items.sort(key=lambda x: x["when"], reverse=True): stable, descending
SortedByWhen(items) ==
    IF items = <<>> THEN <<>>
    ELSE InsertByWhen(SortedByWhen(SubSeq(items, 1, Len(items) - 1)), items[Len(items)])

\* main, line 80
RoBullet(it, tzdb, local) ==
    <<"- **", iso_boston(it.when, tzdb, local), "** -- [", it.title, "](", it.link,
      ")  _", it.source, "_">>

\* main, lines 75-81: the lines that are joined
RoLines(items, date_title, tzdb, local) ==
    <<<<"# Massachusetts Bills Introduced -- ", date_title>>, <<"">>>>
    \o (IF items = <<>> THEN <<<<"> No new items found in the last 24 hours.">>>>
        ELSE [k \in 1..Len(items) |-> RoBullet(items[k], tzdb, local)])
    \o <<<<"">>>>

(***************************************************************************)
(* State.  The inputs of a run do not change during it:                    *)
(*   program    "main" (src/main.py) or "rss_only" (src/src/main.py)       *)
(*   now        the instant the run starts, an aware UTC datetime          *)
(*   since_arg  [n, unit]: --since "<n><unit>", or WINDOW_HOURS = n        *)
(*   local      UTC offset of the system time zone, in minutes             *)
(*   tzdb       whether the time zone database can be loaded               *)
(*   rss_urls, ics_urls   the lists of the configuration file              *)
(*   net        what each url answers: [status, title, body]               *)
(* The run itself:                                                         *)
(*   pc         "start", "rss", "ics", "render", "done"; "exit" after      *)
(*              sys.exit(0); "crashed" after an uncaught exception         *)
(*   i          1-based position in the list being walked                  *)
(*   since      now - window, once computed                                *)
(*   all_items  the item collection (items, in the RSS-only program)       *)
(*   stderr     the warnings printed to sys.stderr                         *)
(*   report     the lines written to the report file                       *)
(***************************************************************************)
VARIABLES program, now, since_arg, local, tzdb, rss_urls, ics_urls, net,
          pc, i, since, all_items, stderr, report

inputs == <<program, now, since_arg, local, tzdb, rss_urls, ics_urls, net>>
vars == <<program, now, since_arg, local, tzdb, rss_urls, ics_urls, net,
          pc, i, since, all_items, stderr, report>>

\* main, line 151: the start of the window
MainSince(t, arg) ==
    IF arg.unit = "h" THEN MinusSeconds(t, arg.n * 3600)
    ELSE MinusSeconds(t, arg.n * 86400)

\* main, lines 156-162: what one RSS source adds to all_items ...
RssContribution(url, resp, since_dt, loc) ==
    IF resp.status = "raise" THEN <<>>
    ELSE InWindow(fetch_rss(url, resp, loc), since_dt)

\* ... and to sys.stderr
RssWarnings(url, resp) ==
    IF resp.status = "raise" THEN <<<<"[WARN] RSS fetch failed: ", url>>>> ELSE <<>>

\* main, lines 165-171: what one ICS source adds to all_items ...
IcsContribution(url, resp, since_dt) ==
    IF resp.status = "raise" THEN <<>>
    ELSE InWindow(fetch_ics(url, resp), since_dt)

\* ... and to sys.stderr
IcsWarnings(url, resp) ==
    IF resp.status = "raise" THEN <<<<"[WARN] ICS fetch failed: ", url>>>> ELSE <<>>

\* src/main.py main, lines 143-153
MainStart ==
    /\ program = "main" /\ pc = "start"
    /\ since' = MainSince(now, since_arg)
    /\ pc' = "rss" /\ i' = 1
    /\ UNCHANGED <<inputs, all_items, stderr, report>>

\* src/main.py main, lines 155-162: one turn of the loop over rss_urls
MainRss ==
    /\ program = "main" /\ pc = "rss"
    /\ IF i <= Len(rss_urls)
       THEN LET url == rss_urls[i] IN
            /\ all_items' = all_items \o RssContribution(url, net[url], since, local)
            /\ stderr' = stderr \o RssWarnings(url, net[url])
            /\ i' = i + 1 /\ pc' = pc
       ELSE /\ pc' = "ics" /\ i' = 1
            /\ UNCHANGED <<all_items, stderr>>
    /\ UNCHANGED <<inputs, since, report>>

\* src/main.py main, lines 164-171: one turn of the loop over ics_urls
MainIcs ==
    /\ program = "main" /\ pc = "ics"
    /\ IF i <= Len(ics_urls)
       THEN LET url == ics_urls[i] IN
            /\ all_items' = all_items \o IcsContribution(url, net[url], since)
            /\ stderr' = stderr \o IcsWarnings(url, net[url])
            /\ i' = i + 1 /\ pc' = pc
       ELSE /\ pc' = "render" /\ i' = 1
            /\ UNCHANGED <<all_items, stderr>>
    /\ UNCHANGED <<inputs, since, report>>

\* src/main.py main, lines 173-180: render and write the report
MainRender ==
    /\ program = "main" /\ pc = "render"
    /\ report' = render_markdown(all_items, StrfDate(AsOffset(now, local)), tzdb)
    /\ pc' = "done"
    /\ UNCHANGED <<inputs, i, since, all_items, stderr>>

\* src/src/main.py main, lines 33-41
RoStart ==
    /\ program = "rss_only" /\ pc = "start"
    /\ since' = MinusSeconds(now, since_arg.n * 3600)
    /\ pc' = IF rss_urls = <<>> THEN "exit" ELSE "rss"
    /\ i' = 1
    /\ UNCHANGED <<inputs, all_items, stderr, report>>

\* src/src/main.py main, lines 42-70: one turn of the loop over urls.
\* Nothing catches an exception of feedparser.parse.
RoFeed ==
    /\ program = "rss_only" /\ pc = "rss"
    /\ IF i <= Len(rss_urls)
       THEN LET url == rss_urls[i] IN
            IF net[url].status = "raise"
            THEN pc' = "crashed" /\ UNCHANGED <<i, all_items>>
            ELSE /\ all_items' = all_items
                        \o RoItems(IF net[url].status = "ok" THEN net[url].body ELSE <<>>,
                                   RoSource(net[url], url), since)
                 /\ i' = i + 1 /\ pc' = pc
       ELSE /\ pc' = "render" /\ i' = 1
            /\ UNCHANGED all_items
    /\ UNCHANGED <<inputs, since, stderr, report>>

\* src/src/main.py main, lines 72-87: sort, render and write the report
RoRender ==
    /\ program = "rss_only" /\ pc = "render"
    /\ all_items' = SortedByWhen(all_items)
    /\ report' = RoLines(SortedByWhen(all_items),
                         StrfDate(AsOffset(now, IF tzdb THEN NyOffset(Epoch(now)) ELSE local)),
                         tzdb, local)
    /\ pc' = "done"
    /\ UNCHANGED <<inputs, i, since, stderr>>

Next ==
    \/ MainStart
    \/ MainRss
    \/ MainIcs
    \/ MainRender
    \/ RoStart
    \/ RoFeed
    \/ RoRender

(***************************************************************************)
(* Inputs.  Bounds of the model.                                           *)
(***************************************************************************)
\* Most sources (of both kinds together) in a run of several sources.
MaxSources == 2
\* Most entries served by all the sources of such a run together.
MaxEntries == 2

RssUrl(k) == <<"https://rss/", ToString(k)>>
IcsUrl(k) == <<"https://ics/", ToString(k)>>

NoFields ==
    [published |-> <<>>, updated |-> <<>>, created |-> <<>>,
     published_parsed |-> <<>>, updated_parsed |-> <<>>, title |-> <<>>, link |-> <<>>]

\* The instant k half-seconds after t.
HalfSeconds(t, k) ==
    LET us == t.microsecond + 500000 * (k % 2)
    IN  FromWallSeconds(WallSeconds(t) + (k \div 2) + (us \div 1000000),
                        us % 1000000, t.tzinfo)

(* Runs over several sources.  The run starts one second before midnight,  *)
(* so that the window starts at 23:59:59 of the day before; entries are    *)
(* stamped one second before that start, at it, half a second and a whole  *)
(* second after it.  The k-th entry of a feed has title and link number k. *)
RunNow == DateTime(2024, 3, 10, 23, 59, 59, 0, UTC)
RunWindow == [n |-> 24, unit |-> "h"]
RunStamps == {HalfSeconds(MainSince(RunNow, RunWindow), k) : k \in {-2, 0, 1, 2}}

RunEntry(kind, stamp, k) ==
    IF kind = "rss"
    THEN [NoFields EXCEPT !.published = <<[fmt |-> "iso", val |-> stamp]>>,
                          !.title = <<<<"Bill ", ToString(k)>>>>,
                          !.link = <<<<"https://bill/", ToString(k)>>>>]
    ELSE [name |-> "VEVENT", summary |-> <<<<"Hearing ", ToString(k)>>>>,
          dtstart |-> <<stamp>>, url |-> <<>>]

\* What a source of the given kind may answer, serving at most b entries.
RunResponses(kind, b) ==
    {[status |-> st, title |-> <<>>, body |-> <<>>] :
        st \in IF kind = "rss" THEN {"raise", "bozo"} ELSE {"raise"}}
    \cup
    {[status |-> "ok", title |-> <<>>,
      body |-> [k \in 1..Len(stamps) |-> RunEntry(kind, stamps[k], k)]] :
        stamps \in UNION {[1..m -> RunStamps] : m \in 0..b}}

RECURSIVE RunAnswers(_, _)
\* The answers of sources of the given kinds, serving at most b entries.
RunAnswers(kinds, b) ==
    IF kinds = <<>> THEN {<<>>}
    ELSE UNION {{<<r>> \o rest : rest \in RunAnswers(Tail(kinds), b - Len(r.body))} :
                  r \in RunResponses(Head(kinds), b)}

\* The network in which the sources answer `answers`, RSS sources first.
Network(nRss, nIcs, answers) ==
    [u \in {RssUrl(k) : k \in 1..nRss} \cup {IcsUrl(k) : k \in 1..nIcs} |->
        IF \E k \in 1..nRss : u = RssUrl(k)
        THEN answers[CHOOSE k \in 1..nRss : u = RssUrl(k)]
        ELSE answers[nRss + (CHOOSE k \in 1..nIcs : u = IcsUrl(k))]]

Kinds(nRss, nIcs) == [k \in 1..(nRss + nIcs) |-> IF k <= nRss THEN "rss" ELSE "ics"]

\* The state in which a run starts.
Start(prog, t, arg, loc, db, nRss, nIcs, answers) ==
    /\ program = prog /\ now = t /\ since_arg = arg /\ local = loc /\ tzdb = db
    /\ rss_urls = [k \in 1..nRss |-> RssUrl(k)]
    /\ ics_urls = [k \in 1..nIcs |-> IcsUrl(k)]
    /\ net = Network(nRss, nIcs, answers)
    /\ pc = "start" /\ i = 1 /\ since = <<>>
    /\ all_items = <<>> /\ stderr = <<>> /\ report = <<>>

InitRun ==
    \E prog \in {"main", "rss_only"} :
    \E nRss \in 0..MaxSources :
    \E nIcs \in 0..(IF prog = "main" THEN MaxSources - nRss ELSE 0) :
    \E answers \in RunAnswers(Kinds(nRss, nIcs), MaxEntries) :
        Start(prog, RunNow, RunWindow, 0, TRUE, nRss, nIcs, answers)

(* Runs over one RSS source with one entry, over every combination of     *)
(* date fields.  The field number j, when it holds a date, holds the       *)
(* instant j hours before the start of the run, written in ISO 8601 or     *)
(* RFC 822, with or without a zone.                                        *)
FieldStamp(j, tz) ==
    LET t == MinusSeconds(RunNow, j * 3600)
    IN  IF tz = NoTz THEN [t EXCEPT !.tzinfo = NoTz] ELSE AsOffset(t, tz[1])

TextOptions(j) ==
    {<<>>, <<[fmt |-> "junk", val |-> FieldStamp(j, UTC)]>>,
     <<[fmt |-> "iso", val |-> FieldStamp(j, NoTz)]>>,
     <<[fmt |-> "iso", val |-> FieldStamp(j, UTC)]>>,
     <<[fmt |-> "rfc822", val |-> FieldStamp(j, Tz(-300))]>>}

StructOf(dt) == <<dt.year, dt.month, dt.day, dt.hour, dt.minute, dt.second>>

StructOptions(j) == {<<>>, <<<<>>>>, <<StructOf(FieldStamp(j, UTC))>>}

LocalOffsets == {-300, 0}

Answer(feed_title, entry) == <<[status |-> "ok", title |-> feed_title, body |-> <<entry>>]>>

InitDates ==
    \E prog \in {"main", "rss_only"}, loc \in LocalOffsets :
    \E p \in TextOptions(1), u \in TextOptions(2), c \in TextOptions(3) :
    \E pp \in StructOptions(4), up \in StructOptions(5) :
        Start(prog, RunNow, RunWindow, loc, TRUE, 1, 0,
              Answer(<<>>, [NoFields EXCEPT !.published = p, !.updated = u, !.created = c,
                                            !.published_parsed = pp, !.updated_parsed = up,
                                            !.title = <<<<"Bill">>>>]))

(* Runs over one source with one record, over the texts it may carry.      *)
TitleOptions ==
    {<<>>, <<<<>>>>, <<<<" ">>>>, <<<<"\n", "An act", " ">>>>, <<<<"An", "\n", "act">>>>}

LinkOptions == {<<>>, <<<<>>>>, <<<<" ">>>>, <<<<"https://bill">>>>}

FeedTitleOptions == {<<>>, <<<<>>>>, <<<<"Senate", " ">>>>}

InitTexts ==
    \/ \E prog \in {"main", "rss_only"} :
       \E t \in TitleOptions, l \in LinkOptions, ft \in FeedTitleOptions :
           Start(prog, RunNow, RunWindow, 0, TRUE, 1, 0,
                 Answer(ft, [NoFields EXCEPT
                                !.published = <<[fmt |-> "iso", val |-> RunNow]>>,
                                !.title = t, !.link = l]))
    \/ \E t \in TitleOptions, l \in LinkOptions :
           Start("main", RunNow, RunWindow, 0, TRUE, 0, 1,
                 Answer(<<>>, [name |-> "VEVENT", summary |-> t,
                               dtstart |-> <<RunNow>>, url |-> l]))

(* Runs over one calendar with one component, over the forms of DTSTART,   *)
(* on days around the year and around the changes of the display zone's    *)
(* offset.  The run starts at 13:00 UTC of the day.                        *)
Days ==
    {[year |-> 2024, month |-> 3, day |-> 15], [year |-> 2024, month |-> 3, day |-> 10],
     [year |-> 2024, month |-> 11, day |-> 3], [year |-> 2024, month |-> 1, day |-> 1],
     [year |-> 2024, month |-> 12, day |-> 31], [year |-> 2024, month |-> 2, day |-> 29]}

DtStartOptions(d) ==
    {<<>>, <<d>>} \cup
    {<<DateTime(d.year, d.month, d.day, 0, 30, 0, 0, tz)>> :
        tz \in {NoTz, UTC, Tz(-300), Tz(540)}}

WindowArgs == {[n |-> 24, unit |-> "h"], [n |-> 7, unit |-> "d"]}

InitCalendar ==
    \E d \in Days, arg \in WindowArgs, loc \in LocalOffsets, db \in BOOLEAN :
    \E start \in DtStartOptions(d), nm \in {"VEVENT", "VTIMEZONE"} :
        Start("main", DateTime(d.year, d.month, d.day, 13, 0, 0, 250000, UTC), arg, loc, db,
              0, 1,
              Answer(<<>>, [name |-> nm, summary |-> <<<<"Hearing">>>>,
                            dtstart |-> start, url |-> <<>>]))

Init == InitRun \/ InitDates \/ InitTexts \/ InitCalendar

Spec == Init /\ [][Next]_vars

(***************************************************************************)
(* Vocabulary of the properties.                                           *)
(***************************************************************************)
\* The sources the run has dealt with so far, in the order it took them.
Processed ==
    CASE pc = "start" -> <<>>
      [] pc = "ics" -> rss_urls \o SubSeq(ics_urls, 1, i - 1)
      [] pc \in {"render", "done"} -> rss_urls \o ics_urls
      [] OTHER -> SubSeq(rss_urls, 1, i - 1)

IsRssUrl(url) == \E k \in 1..Len(rss_urls) : rss_urls[k] = url

Failed(url) == net[url].status # "ok"

\* now - window, from the inputs of the run
WindowStart ==
    IF program = "main" /\ since_arg.unit # "h"
    THEN MinusSeconds(now, since_arg.n * 24 * 3600)
    ELSE MinusSeconds(now, since_arg.n * 3600)

\* An instant older than every timestamp of the model.
LongAgo == DateTime(1971, 1, 1, 0, 0, 0, 0, UTC)

\* The normalized UTC timestamp of an item.
Stamp(it) == IF program = "main" THEN FromIsoFormat(it.dt) ELSE it.when

\* The items the adapter makes of what a source serves, before the window
\* filter; none when the source fails.
Adapted(url) ==
    IF Failed(url) THEN <<>>
    ELSE IF program = "rss_only"
         THEN RoItems(net[url].body, RoSource(net[url], url), LongAgo)
    ELSE IF IsRssUrl(url) THEN fetch_rss(url, net[url], local)
    ELSE fetch_ics(url, net[url])

Retained(url) == SelectSeq(Adapted(url), LAMBDA it : DtGe(Stamp(it), WindowStart))

RECURSIVE Flatten(_)
Flatten(seqs) == IF seqs = <<>> THEN <<>> ELSE Head(seqs) \o Flatten(Tail(seqs))

\* The in-window items of the given sources, in the given order.
RetainedOf(urls) == Flatten([k \in 1..Len(urls) |-> Retained(urls[k])])

\* The lines of the report that render an item.
Bullets == SelectSeq(report, LAMBDA line : line[1] = "- **")

Collecting == pc \in {"rss", "ics", "render"}

\* C1: an item is in the item collection iff the adapter made it of a source
\* dealt with and its normalized UTC timestamp is at or after now - window
\* (the boundary included), in both programs; the report renders exactly the
\* collected items.
C1_WindowFilter ==
    /\ \A k \in 1..Len(all_items) : DtGe(Stamp(all_items[k]), WindowStart)
    /\ Collecting => all_items = RetainedOf(Processed)
    /\ pc = "done" => /\ Len(all_items) = Len(RetainedOf(Processed))
                      /\ Len(Bullets) = Len(all_items)

\* A source served an entry stamped exactly now - window and one a second
\* older; the first was kept and the second was not.
C1_Witness ==
    /\ pc = "render" /\ Len(all_items) = 1
    /\ SameInstant(Stamp(all_items[1]), WindowStart)
    /\ \E k \in 1..Len(Processed) :
          /\ ~Failed(Processed[k])
          /\ Len(net[Processed[k]].body) = 2
          /\ Len(Adapted(Processed[k])) = 2
          /\ \E j \in 1..2 : Epoch(Stamp(Adapted(Processed[k])[j])) = Epoch(WindowStart) - 1

\* C2: the run never aborts; every failed source adds no item and exactly
\* one warning naming its url, in order; the collection is the in-window
\* items of the sources that succeeded, in configured order.
C2_FaultIsolation ==
    /\ pc # "crashed"
    /\ Len(stderr) = Len(SelectSeq(Processed, Failed))
    /\ \A k \in 1..Len(stderr) : stderr[k][2] = SelectSeq(Processed, Failed)[k]
    /\ Collecting => all_items = RetainedOf(SelectSeq(Processed, LAMBDA u : ~Failed(u)))

\* The stable descending order by instant: item k comes after the items
\* with a later timestamp and after the earlier arrivals with the same one.
ByInstant(items) ==
    LET n == Len(items)
        Rank(k) == 1 + Cardinality({j \in 1..n : /\ DtGe(Stamp(items[j]), Stamp(items[k]))
                                                  /\ ~SameInstant(Stamp(items[j]), Stamp(items[k]))})
                     + Cardinality({j \in 1..(k - 1) : SameInstant(Stamp(items[j]), Stamp(items[k]))})
    IN  [p \in 1..n |-> items[CHOOSE k \in 1..n : Rank(k) = p]]

Descending(items) ==
    \A k \in 1..(Len(items) - 1) : DtGe(Stamp(items[k]), Stamp(items[k + 1]))

\* The items in arrival order.
Arrived == RetainedOf(Processed)

\* C3: in each section of the report the items are in descending order of
\* their instants, and items with equal timestamps are in arrival order: the
\* rendered lines are the lines of the items in that order (the order of the
\* ISO strings agrees with the order of the instants).
C3_DescendingStable ==
    pc = "done" =>
        IF program = "main"
        THEN LET press  == ByInstant(SelectType(Arrived, "rss"))
                 events == ByInstant(SelectType(Arrived, "ics"))
             IN  /\ Descending(press) /\ Descending(events)
                 /\ Bullets = [k \in 1..Len(press) |-> RssBullet(press[k], tzdb)]
                                \o [k \in 1..Len(events) |-> IcsBullet(events[k], tzdb)]
        ELSE /\ Descending(all_items)
             /\ all_items = ByInstant(Arrived)
             /\ Bullets = [k \in 1..Len(all_items) |-> RoBullet(all_items[k], tzdb, local)]

\* Two press releases arrived oldest first, half a second apart and on
\* two calendar days, and were rendered.
C3_Witness ==
    /\ pc = "done" /\ program = "main" /\ Len(all_items) = 2
    /\ all_items[1].type = "rss" /\ all_items[2].type = "rss"
    /\ ~DtGe(Stamp(all_items[1]), Stamp(all_items[2]))
    /\ Stamp(all_items[1]).microsecond # 0
    /\ Stamp(all_items[1]).day # Stamp(all_items[2]).day

IsLine(line, texts) == Len(line) = 1 /\ line[1] \in texts

PressHeaders == {"## Press Releases (last 24h)", "## Press Releases"}
EventHeaders == {"## Hearings & Meetings (last 24h window start times)",
                 "## Hearings & Meetings"}
Placeholders == {"> No new items in the last 24 hours.",
                 "> No events starting in the last 24 hours."}

LinesWhere(from, to, Test(_)) == {k \in from..to : Test(report[k])}

\* Lines from..to of the report hold the section of a category with n items.
SectionOf(from, to, n) ==
    LET bullets == Cardinality(LinesWhere(from, to, LAMBDA line : line[1] = "- **"))
        holders == Cardinality(LinesWhere(from, to, LAMBDA line : IsLine(line, Placeholders)))
    IN  IF n = 0 THEN bullets = 0 /\ holders = 1 ELSE bullets = n /\ holders = 0

\* C8: the report of the multi-source program holds the press-release
\* section and then the events section, once each, whatever the items; a
\* category without items shows the placeholder line, a category with items
\* one line per item and no placeholder.
C8_SectionsAlwaysPresent ==
    pc = "done" /\ program = "main" =>
        LET press  == LinesWhere(1, Len(report), LAMBDA line : IsLine(line, PressHeaders))
            events == LinesWhere(1, Len(report), LAMBDA line : IsLine(line, EventHeaders))
        IN  /\ Cardinality(press) = 1 /\ Cardinality(events) = 1
            /\ \A p \in press, e \in events :
                  /\ p < e
                  /\ SectionOf(p + 1, e - 1, Len(SelectType(all_items, "rss")))
                  /\ SectionOf(e + 1, Len(report), Len(SelectType(all_items, "ics")))

\* No press release and one event were retained, and the report is written.
C8_Witness ==
    /\ pc = "done" /\ program = "main"
    /\ rss_urls # <<>>
    /\ Len(all_items) = 1 /\ all_items[1].type = "ics"

\* The orders in which a list of sources can be taken.
Orders(urls) ==
    {[k \in 1..Len(urls) |-> urls[f[k]]] :
        f \in {g \in [1..Len(urls) -> 1..Len(urls)] :
                  \A a, b \in 1..Len(urls) : a # b => g[a] # g[b]}}

\* The report of the multi-source program when it takes the sources in the
\* given orders.
ReportOf(rss, ics) ==
    render_markdown(
        Flatten([k \in 1..Len(rss) |-> RssContribution(rss[k], net[rss[k]], since, local)])
          \o Flatten([k \in 1..Len(ics) |-> IcsContribution(ics[k], net[ics[k]], since)]),
        StrfDate(AsOffset(now, local)), tzdb)

OrderUnobservable ==
    \A rss \in Orders(rss_urls), ics \in Orders(ics_urls) : ReportOf(rss, ics) = report

\* C9 as stated: taking the sources of one kind in any order gives the same
\* report, also when items of different sources have equal timestamps.
C9_AnyOrderSameReport == pc = "done" /\ program = "main" => OrderUnobservable

\* No two retained items of one category that come from different sources
\* have equal timestamps.
NoTiesAcrossSources ==
    \A u, v \in {Processed[k] : k \in 1..Len(Processed)} :
        u # v /\ IsRssUrl(u) = IsRssUrl(v) =>
            \A a \in 1..Len(Retained(u)), b \in 1..Len(Retained(v)) :
                ~SameInstant(Stamp(Retained(u)[a]), Stamp(Retained(v)[b]))

\* C9, amended: taking the sources of one kind in any order gives the same
\* report provided no two retained items of one category that come from
\* different sources have equal timestamps.
C9_OrderUnobservableWithoutTies ==
    pc = "done" /\ program = "main" /\ NoTiesAcrossSources => OrderUnobservable

\* Two feeds each gave one press release, the first feed the older one.
C9_Witness ==
    /\ pc = "done" /\ program = "main" /\ Len(rss_urls) = 2
    /\ Len(Retained(rss_urls[1])) = 1 /\ Len(Retained(rss_urls[2])) = 1
    /\ ~DtGe(Stamp(Retained(rss_urls[1])[1]), Stamp(Retained(rss_urls[2])[1]))
    /\ NoTiesAcrossSources

HasLinkMarkup(bullet) == bullet[3] = "** -- ["

\* C7: every item line shows the title as a hyperlink when the item's link
\* is not empty, and as plain text, without link markup, when it is empty.
C7_LinkRendering ==
    pc = "done" =>
        /\ \A k \in 1..Len(Bullets) : HasLinkMarkup(Bullets[k]) => Bullets[k][6] # <<>>
        /\ Cardinality({k \in 1..Len(Bullets) : ~HasLinkMarkup(Bullets[k])})
             = Cardinality({k \in 1..Len(all_items) : all_items[k].link = <<>>})

\* C10: every item has a title that is not empty or blank (the placeholder
\* stands in for a missing or blank title or summary) and a source label
\* that is not empty.
C10_TitleAndSourceNeverEmpty ==
    \A k \in 1..Len(all_items) :
        /\ Strip(all_items[k].title) # <<>>
        /\ all_items[k].source # <<>>

\* The formats the program's parser of free-text dates accepts.
Parseable == IF program = "main" THEN {"iso", "rfc822"} ELSE {"iso"}

\* The value of a free-text field of an entry, <<>> when the field is
\* missing or does not parse.
TextValue(e, key) ==
    IF e[key] # <<>> /\ e[key][1].fmt \in Parseable THEN <<e[key][1].val>> ELSE <<>>

FirstText(e) ==
    IF TextValue(e, "published") # <<>> THEN TextValue(e, "published")
    ELSE IF TextValue(e, "updated") # <<>> THEN TextValue(e, "updated")
    ELSE TextValue(e, "created")

StructValue(f) == IF f # <<>> /\ f[1] # <<>> THEN <<FromStruct(f[1])>> ELSE <<>>

\* The chain as stated: published, updated, created, then published_parsed.
StatedChain(e) ==
    IF FirstText(e) # <<>> THEN FirstText(e) ELSE StructValue(e.published_parsed)

\* The chain as amended: the RSS-only program then tries updated_parsed.
AmendedChain(e) ==
    IF StatedChain(e) # <<>> \/ program = "main" THEN StatedChain(e)
    ELSE StructValue(e.updated_parsed)

\* The start of an event: a date-only value stands for noon UTC of the day.
EventStart(comp) ==
    IF comp.name # "VEVENT" \/ comp.dtstart = <<>> THEN <<>>
    ELSE IF IsDateTime(comp.dtstart[1]) THEN comp.dtstart
    ELSE <<DateTime(comp.dtstart[1].year, comp.dtstart[1].month, comp.dtstart[1].day,
                    12, 0, 0, 0, UTC)>>

\* The UTC instant of a resolved value as the program computes it.
ProgramUtc(dt) ==
    IF program = "main" THEN AsTimezoneUtc(dt, local)
    ELSE AsTimezoneUtc(IF dt.tzinfo = NoTz THEN [dt EXCEPT !.tzinfo = UTC] ELSE dt, 0)

\* The UTC instant of a resolved value whose wall clock, when it has no
\* zone, is read as UTC.
ZonelessIsUtc(dt) ==
    AsTimezoneUtc(IF dt.tzinfo = NoTz THEN [dt EXCEPT !.tzinfo = UTC] ELSE dt, 0)

\* The timestamps that the records of the given sources give, in order: of
\* every record that resolves, the instant, when it is in the window.
StampsOf(urls, RssChain(_), ToUtc(_)) ==
    LET Resolved(u, rec) == IF IsRssUrl(u) THEN RssChain(rec) ELSE EventStart(rec)
        OfRecord(u, rec) ==
            IF Resolved(u, rec) # <<>>
                 /\ DtGe(ToUtc(Resolved(u, rec)[1]), WindowStart)
            THEN <<ToUtc(Resolved(u, rec)[1])>> ELSE <<>>
        OfSource(u) ==
            IF Failed(u) THEN <<>>
            ELSE Flatten([k \in 1..Len(net[u].body) |-> OfRecord(u, net[u].body[k])])
    IN  Flatten([k \in 1..Len(urls) |-> OfSource(urls[k])])

RssProcessed == SelectSeq(Processed, IsRssUrl)

RssStamps ==
    LET items == IF program = "main" THEN SelectType(all_items, "rss") ELSE all_items
    IN  [k \in 1..Len(items) |-> Stamp(items[k])]

\* Every warning names a source whose fetch or parse raised.
OnlyFetchWarnings == \A k \in 1..Len(stderr) : net[stderr[k][2]].status = "raise"

\* C4 as stated: the timestamp of an RSS entry is that of the first of
\* published, updated, created that is present and parses; failing these,
\* published_parsed read as UTC; failing that, the entry is dropped without
\* a warning.  Every item has a timestamp.
C4_StatedChain ==
    Collecting =>
        /\ RssStamps = StampsOf(RssProcessed, StatedChain, ProgramUtc)
        /\ OnlyFetchWarnings

\* C4, amended: as stated, except that the RSS-only program, when
\* published_parsed is missing too, uses updated_parsed read as UTC before
\* it drops the entry.
C4_ResolutionChain ==
    Collecting =>
        /\ RssStamps = StampsOf(RssProcessed, AmendedChain, ProgramUtc)
        /\ OnlyFetchWarnings

\* An entry whose published and updated texts are present and do not parse,
\* whose created text parses, and which became an item.
C4_Witness ==
    /\ pc = "render" /\ Len(all_items) = 1 /\ Len(rss_urls) = 1
    /\ Len(net[rss_urls[1]].body) = 1
    /\ LET e == net[rss_urls[1]].body[1]
       IN  /\ e.published # <<>> /\ TextValue(e, "published") = <<>>
           /\ e.updated # <<>> /\ TextValue(e, "updated") = <<>>
           /\ TextValue(e, "created") # <<>>
           /\ SameInstant(Stamp(all_items[1]), ProgramUtc(TextValue(e, "created")[1]))

\* C5: a timestamp without a zone is read as UTC, whatever the zone of the
\* machine: the stored instants are the resolved values with a zoneless
\* wall clock taken as UTC, on the RSS and ICS paths of both programs.
C5_ZonelessIsUtc ==
    Collecting =>
        [k \in 1..Len(all_items) |-> Stamp(all_items[k])]
            = StampsOf(Processed, AmendedChain, ZonelessIsUtc)

\* The date-only DTSTART values that became items, with their items.
DateOnlyItems ==
    UNION {{<<comp.dtstart[1], IcsItem(comp, u)[1]>> :
              comp \in {c \in {net[u].body[k] : k \in 1..Len(net[u].body)} :
                           /\ c.name = "VEVENT" /\ c.dtstart # <<>>
                           /\ ~IsDateTime(c.dtstart[1])}} :
           u \in {v \in {Processed[k] : k \in 1..Len(Processed)} :
                     ~IsRssUrl(v) /\ ~Failed(v)}}

\* Every date-only event is stored at noon UTC of its day, is in the report
\* when it is in the window, and is displayed there as one of `times` on
\* its day (`fallback` when the zone database is missing).
DateOnlyShownAt(times, fallback) ==
    \A pair \in DateOnlyItems :
        LET d  == pair[1]
            it == pair[2]
        IN  /\ it.dt = IsoFormat(DateTime(d.year, d.month, d.day, 12, 0, 0, 0, UTC))
            /\ DtGe(Stamp(it), WindowStart) =>
                  \E k \in 1..Len(Bullets) :
                     /\ Bullets[k] = IcsBullet(it, tzdb)
                     /\ Bullets[k][2] \in {StrfDate(d) \o t :
                                             t \in IF tzdb THEN times ELSE fallback}

\* C6 as stated: a date-only event is stored at 12:00 UTC of its day and
\* displayed at 12:00 on that day ("12:00 UTC" without the zone database).
C6_ShownAtNoon ==
    pc = "done" /\ program = "main" =>
        DateOnlyShownAt({<<32, 49, 50, 58, 48, 48>>},
                        {<<32, 49, 50, 58, 48, 48, 32, 85, 84, 67>>})

\* C6, amended: a date-only event is stored at 12:00 UTC of its day and
\* displayed on that same day, never the day before or after, at 07:00 or
\* 08:00 (12:00 UTC in America/New_York), or as "12:00 UTC" when the zone
\* database cannot be loaded.
C6_DateOnlySameDay ==
    pc = "done" /\ program = "main" =>
        DateOnlyShownAt({<<32, 48, 55, 58, 48, 48>>, <<32, 48, 56, 58, 48, 48>>},
                        {<<32, 49, 50, 58, 48, 48, 32, 85, 84, 67>>})

\* The event dated 2024-03-15 is in the report, displayed at 08:00 that day.
C6_Witness ==
    /\ pc = "done" /\ program = "main" /\ tzdb
    /\ \E pair \in DateOnlyItems : pair[1] = [year |-> 2024, month |-> 3, day |-> 15]
    /\ Len(Bullets) = 1
    /\ Bullets[1][2] = <<50, 48, 50, 52, 45, 48, 51, 45, 49, 53, 32, 48, 56, 58, 48, 48>>

====
